---- MODULE Spec2Model ----
(***************************************************************************)
(* Model of pkg/driver/controllerserver.go of csi-s3: the CSI controller   *)
(* service (CreateVolume, DeleteVolume, ValidateVolumeCapabilities,        *)
(* ControllerExpandVolume) and its volume-id helpers, run against an       *)
(* object-storage backend (pkg/s3, modelled at its interface).             *)
(*                                                                         *)
(* Strings are sequences of one-character strings, so that the helpers     *)
(* (strings.ToLower, strings.Split, path.Join) are computed, not assumed.  *)
(***************************************************************************)
EXTENDS Integers, Sequences, FiniteSets, TLC

(***************************************************************************)
(* Strings                                                                 *)
(***************************************************************************)
Slash == "/"

Dot == "."

EmptyStr == << >>

UpperChars == << "A", "B", "C", "D", "E", "F", "G", "H", "I", "J", "K", "L", "M",
                 "N", "O", "P", "Q", "R", "S", "T", "U", "V", "W", "X", "Y", "Z" >>

LowerChars == << "a", "b", "c", "d", "e", "f", "g", "h", "i", "j", "k", "l", "m",
                 "n", "o", "p", "q", "r", "s", "t", "u", "v", "w", "x", "y", "z" >>

\* two letters outside ASCII, each written as one character of the model:
\* U+023A, latin capital letter A with stroke, and its lower case U+2C65
CapitalAStroke == "U+023A"

SmallAStroke == "U+2C65"

\* strings.ToLower on one character
LowerChar(c) ==
    IF c = CapitalAStroke THEN SmallAStroke
    ELSE IF \E i \in 1..Len(UpperChars) : UpperChars[i] = c
    THEN LowerChars[CHOOSE i \in 1..Len(UpperChars) : UpperChars[i] = c]
    ELSE c

\* strings.ToLower
ToLower(s) == [i \in 1..Len(s) |-> LowerChar(s[i])]

\* strings.Split(s, "/"): the segments between the slashes, n+1 of them for n slashes
RECURSIVE SplitFrom(_, _, _)
SplitFrom(s, i, cur) ==
    IF i > Len(s) THEN << cur >>
    ELSE IF s[i] = Slash THEN << cur >> \o SplitFrom(s, i + 1, EmptyStr)
    ELSE SplitFrom(s, i + 1, Append(cur, s[i]))

Split(s) == SplitFrom(s, 1, EmptyStr)

\* strings.Join(elems, "/")
RECURSIVE JoinSlash(_)
JoinSlash(elems) ==
    IF Len(elems) = 0 THEN EmptyStr
    ELSE IF Len(elems) = 1 THEN elems[1]
    ELSE elems[1] \o << Slash >> \o JoinSlash(Tail(elems))

\* path.Clean's pass over the path elements: empty and "." elements are dropped,
\* ".." removes the element before it (or is kept at the start of a relative
\* path, or dropped at the root)
RECURSIVE CleanElems(_, _, _)
CleanElems(elems, out, rooted) ==
    IF Len(elems) = 0 THEN out
    ELSE LET e == Head(elems)
             rest == Tail(elems)
         IN  IF e = EmptyStr \/ e = << Dot >> THEN CleanElems(rest, out, rooted)
             ELSE IF e = << Dot, Dot >>
                  THEN IF Len(out) > 0 /\ out[Len(out)] # << Dot, Dot >>
                       THEN CleanElems(rest, SubSeq(out, 1, Len(out) - 1), rooted)
                       ELSE IF rooted THEN CleanElems(rest, out, rooted)
                       ELSE CleanElems(rest, Append(out, e), rooted)
                  ELSE CleanElems(rest, Append(out, e), rooted)

\* path.Clean
Clean(p) ==
    IF Len(p) = 0 THEN << Dot >>
    ELSE LET rooted == p[1] = Slash
             body == JoinSlash(CleanElems(Split(p), << >>, rooted))
         IN  IF rooted THEN << Slash >> \o body
             ELSE IF Len(body) = 0 THEN << Dot >>
             ELSE body

\* path.Join(a, b): the non-empty elements joined by "/" and cleaned; "" if none
PathJoin(a, b) ==
    LET elems == SelectSeq(<< a, b >>, LAMBDA e : Len(e) > 0)
    IN  IF Len(elems) = 0 THEN EmptyStr ELSE Clean(JoinSlash(elems))

(***************************************************************************)
(* Volume identity codec (controllerserver.go, lines 244-265)              *)
(***************************************************************************)
\* the most bytes of a lower-cased name that sanitizeVolumeID keeps as it is
MaxIDLen == 63

(***************************************************************************)
(* SHA-1 (crypto/sha1) and hex.EncodeToString, lines 247-249.  A 32-bit    *)
(* word is a sequence of 32 bits, the most significant first; sums are     *)
(* taken on the 16-bit halves.                                             *)
(***************************************************************************)
\* the printable ASCII characters, from code 32 (space) to code 126 (~); the
\* place of code 96, the grave accent, is held by an empty string
Ascii == << " ", "!", "\"", "#", "$", "%", "&", "'", "(", ")", "*", "+", ",", "-", ".", "/",
            "0", "1", "2", "3", "4", "5", "6", "7", "8", "9", ":", ";", "<", "=", ">", "?",
            "@", "A", "B", "C", "D", "E", "F", "G", "H", "I", "J", "K", "L", "M", "N", "O",
            "P", "Q", "R", "S", "T", "U", "V", "W", "X", "Y", "Z", "[", "\\", "]", "^", "_",
            "", "a", "b", "c", "d", "e", "f", "g", "h", "i", "j", "k", "l", "m", "n", "o",
            "p", "q", "r", "s", "t", "u", "v", "w", "x", "y", "z", "{", "|", "}", "~" >>

\* the byte of an ASCII character
ByteOf(c) == 31 + CHOOSE i \in 1..Len(Ascii) : Ascii[i] = c

\* the UTF-8 bytes of a character: one byte for ASCII, C8 BA for U+023A and
\* E2 B1 A5 for U+2C65
Utf8(c) ==
    IF c = CapitalAStroke THEN << 200, 186 >>
    ELSE IF c = SmallAStroke THEN << 226, 177, 165 >>
    ELSE << ByteOf(c) >>

\* the bytes of a string
RECURSIVE Bytes(_)
Bytes(s) == IF s = << >> THEN << >> ELSE Utf8(Head(s)) \o Bytes(Tail(s))

\* len of a string: the number of its bytes, not of its characters
len(s) == Len(Bytes(s))

HexDigits == << "0", "1", "2", "3", "4", "5", "6", "7",
                "8", "9", "a", "b", "c", "d", "e", "f" >>

\* the number written by bits i..j of b
RECURSIVE BitsVal(_, _, _)
BitsVal(b, i, j) == IF i > j THEN 0 ELSE b[j] + 2 * BitsVal(b, i, j - 1)

\* the first n values of f, as a sequence computed once
Tuple(f, n) == SubSeq(f, 1, n)

\* the word with halves hi and lo
WordOf(hi, lo) ==
    Tuple([i \in 1..32 |-> IF i <= 16 THEN (hi \div 2^(16 - i)) % 2
                           ELSE (lo \div 2^(32 - i)) % 2], 32)

RECURSIVE SumHalves(_, _, _)
SumHalves(ws, i, j) ==
    IF Len(ws) = 0 THEN 0 ELSE BitsVal(Head(ws), i, j) + SumHalves(Tail(ws), i, j)

\* the sum of the words of ws, modulo 2^32
AddWords(ws) ==
    LET lo == SumHalves(ws, 17, 32)
        hi == SumHalves(ws, 1, 16) + lo \div 65536
    IN  WordOf(hi % 65536, lo % 65536)

Xor(a, b) == Tuple([i \in 1..32 |-> (a[i] + b[i]) % 2], 32)

And(a, b) == Tuple([i \in 1..32 |-> a[i] * b[i]], 32)

Or(a, b) == Tuple([i \in 1..32 |-> a[i] + b[i] - a[i] * b[i]], 32)

Not(a) == Tuple([i \in 1..32 |-> 1 - a[i]], 32)

\* a rotated left by n bits
RotL(a, n) == Tuple([i \in 1..32 |-> a[((i - 1 + n) % 32) + 1]], 32)

\* the message with its padding: a 1 bit, zeros, and the length in bits
Sha1Pad(bytes) ==
    LET n == Len(bytes)
        zeros == (119 - (n % 64)) % 64
        bits == 8 * n
    IN  bytes \o << 128 >> \o Tuple([i \in 1..zeros |-> 0], zeros)
        \o << 0, 0, 0, 0, (bits \div 16777216) % 256, (bits \div 65536) % 256,
              (bits \div 256) % 256, bits % 256 >>

\* word j (from 0) of the 64-byte block that starts after byte off
BlockWord(bytes, off, j) ==
    WordOf(bytes[off + 4 * j + 1] * 256 + bytes[off + 4 * j + 2],
           bytes[off + 4 * j + 3] * 256 + bytes[off + 4 * j + 4])

\* the message schedule: 80 words from the 16 of the block
RECURSIVE Sha1Schedule(_)
Sha1Schedule(w) ==
    IF Len(w) = 80 THEN w
    ELSE LET t == Len(w) + 1
         IN  Sha1Schedule(Append(w,
                 RotL(Xor(Xor(w[t - 3], w[t - 8]), Xor(w[t - 14], w[t - 16])), 1)))

Sha1F(t, b, c, d) ==
    IF t < 20 THEN Or(And(b, c), And(Not(b), d))
    ELSE IF t < 40 THEN Xor(Xor(b, c), d)
    ELSE IF t < 60 THEN Or(Or(And(b, c), And(b, d)), And(c, d))
    ELSE Xor(Xor(b, c), d)

Sha1K(t) ==
    IF t < 20 THEN WordOf(23170, 31129)
    ELSE IF t < 40 THEN WordOf(28377, 60321)
    ELSE IF t < 60 THEN WordOf(36635, 48348)
    ELSE WordOf(51810, 49622)

\* rounds t..79 on the working words v = << a, b, c, d, e >> (the test of
\* Len(v) has TLC compute v before it goes on to the next round)
RECURSIVE Sha1Rounds(_, _, _)
Sha1Rounds(w, t, v) ==
    IF Len(v) # 5 \/ t = 80 THEN v
    ELSE Sha1Rounds(w, t + 1,
             << AddWords(<< RotL(v[1], 5), Sha1F(t, v[2], v[3], v[4]), v[5],
                            Sha1K(t), w[t + 1] >>),
                v[1], RotL(v[2], 30), v[3], v[4] >>)

\* the digest words after the blocks from byte off on
RECURSIVE Sha1Blocks(_, _, _)
Sha1Blocks(bytes, off, h) ==
    IF Len(h) # 5 \/ off >= Len(bytes) THEN h
    ELSE LET w == Sha1Schedule(Tuple([j \in 1..16 |-> BlockWord(bytes, off, j - 1)], 16))
             v == Sha1Rounds(w, 0, h)
         IN  Sha1Blocks(bytes, off + 64,
                        Tuple([i \in 1..5 |-> AddWords(<< h[i], v[i] >>)], 5))

Sha1Init ==
    << WordOf(26437, 8961), WordOf(61389, 43913), WordOf(39098, 56574),
       WordOf(4146, 21622), WordOf(50130, 57840) >>

\* hex.EncodeToString(sha1(s)): 40 hexadecimal characters
Sha1Hex(s) ==
    LET h == Sha1Blocks(Sha1Pad(Bytes(s)), 0, Sha1Init)
    IN  Tuple([i \in 1..40 |->
                  LET word == h[((i - 1) \div 8) + 1]
                      nib == (i - 1) % 8
                  IN  HexDigits[BitsVal(word, 4 * nib + 1, 4 * nib + 4) + 1]], 40)

\* faulty variant of line 245: the name is not put in lower case
sanitizeVolumeID_AsGiven(volumeID) ==
    IF len(volumeID) > MaxIDLen THEN Sha1Hex(volumeID) ELSE volumeID

\* faulty variant of line 246: the characters are counted, not the bytes
sanitizeVolumeID_CountsCharacters(volumeID) ==
    LET lowered == ToLower(volumeID)
    IN  IF Len(lowered) > MaxIDLen THEN Sha1Hex(lowered) ELSE lowered

sanitizeVolumeID(volumeID) ==
    LET lowered == ToLower(volumeID)
    IN  IF len(lowered) > MaxIDLen THEN Sha1Hex(lowered) ELSE lowered

\* returns << bucketName, prefix >>
volumeIDToBucketPrefix(volumeID) ==
    LET splitVolumeID == Split(volumeID)
    IN  IF Len(splitVolumeID) > 1
        THEN << splitVolumeID[1], splitVolumeID[2] >>
        ELSE << volumeID, EmptyStr >>

(***************************************************************************)
(* The object-storage client (pkg/s3), at its interface.  The backend is a *)
(* record: the buckets, one metadata record per << bucket, prefix >>, the  *)
(* key prefixes created, and (history) the buckets createBucket created.   *)
(***************************************************************************)
defaultFsPath == << "c", "s", "i", "-", "f", "s" >>

BucketKey == "bucket"

TypeKey == "mounter"

\* p lies under the key prefix pre: it is pre, or continues it after a "/"
UnderPrefix(pre, p) ==
    \/ p = pre
    \/ /\ Len(p) > Len(pre)
       /\ SubSeq(p, 1, Len(pre)) = pre
       /\ p[Len(pre) + 1] = Slash

BucketExists(be, bucketName) == bucketName \in be.buckets

\* GetFSMeta succeeds when a record is stored for the pair
HasFSMeta(be, bucketName, prefix) == << bucketName, prefix >> \in DOMAIN be.fsmeta

GetFSMeta(be, bucketName, prefix) == be.fsmeta[<< bucketName, prefix >>]

CreateBucket(be, bucketName) ==
    [be EXCEPT !.buckets = @ \cup {bucketName}, !.created = @ \cup {bucketName}]

CreatePrefix(be, bucketName, p) ==
    [be EXCEPT !.prefixes = @ \cup {<< bucketName, p >>}]

\* SetFSMeta creates or overwrites the record of << meta.BucketName, meta.Prefix >>
SetFSMeta(be, meta) ==
    LET key == << meta.BucketName, meta.Prefix >>
    IN  [be EXCEPT !.fsmeta =
            [k \in DOMAIN @ \cup {key} |-> IF k = key THEN meta ELSE @[k]]]

\* RemovePrefix removes what is stored under the prefix, its metadata included
RemovePrefix(be, bucketName, prefix) ==
    LET gone(k) == k[1] = bucketName /\ UnderPrefix(prefix, k[2])
    IN  [be EXCEPT !.prefixes = {k \in @ : ~gone(k)},
                   !.fsmeta = [k \in {d \in DOMAIN @ : ~gone(d)} |-> @[k]]]

\* RemoveBucket removes the bucket with everything in it
RemoveBucket(be, bucketName) ==
    [be EXCEPT !.buckets = @ \ {bucketName},
               !.created = @ \ {bucketName},
               !.prefixes = {k \in @ : k[1] # bucketName},
               !.fsmeta = [k \in {d \in DOMAIN @ : d[1] # bucketName} |-> @[k]]]

(***************************************************************************)
(* Requests, replies and the log of client calls a handler made            *)
(***************************************************************************)
\* the driver registers this controller capability when it starts
DriverCaps == {"CREATE_DELETE_VOLUME"}

ValidateControllerServiceRequest(c) == c \in DriverCaps

SINGLE_NODE_WRITER == "SINGLE_NODE_WRITER"

\* one client call: the function, the bucket and the prefix or path it was
\* given, and how it ended ("ok", "err", or BucketExists's "true", "false")
CallOn(fn, bucketName, arg, out) ==
    [fn |-> fn, bucket |-> bucketName, arg |-> arg, out |-> out]

Call(fn, bucketName, out) == CallOn(fn, bucketName, EmptyStr, out)

NoParams == [k \in {} |-> EmptyStr]

NilCaps == [isNil |-> TRUE, modes |-> << >>]

\* line 86: var meta *s3.FSMeta, before it is assigned
NoFSMeta ==
    [BucketName |-> EmptyStr, Prefix |-> EmptyStr, Mounter |-> EmptyStr,
     CapacityBytes |-> 0, FSPath |-> EmptyStr, CreatedByCsi |-> FALSE]

\* what a handler returns, with the calls it made and the backend it leaves.
\* code "OK" is a nil error; volumeId, capacityBytes and context are the
\* csi.Volume of CreateVolume; confirmed and message are the response of
\* ValidateVolumeCapabilities (confirmed.isNil: no Confirmed part)
Reply(code, calls, be) ==
    [code |-> code, volumeId |-> EmptyStr, capacityBytes |-> 0,
     context |-> NoParams,
     confirmed |-> NilCaps, message |-> "",
     calls |-> calls, be |-> be]

(***************************************************************************)
(* A handler in progress.  Each request runs in a goroutine of its own and *)
(* waits on the object store at every client call, so a handler is taken   *)
(* one client call at a time: pc names the call it makes next, and one     *)
(* step is that call with the handler's code up to the call after it.      *)
(* The fields name .. capacity are the request, volumeID, bucketName,      *)
(* prefix and meta the handler's variables of these names, calls the       *)
(* client calls made so far, and code .. message what it returns once pc   *)
(* is "done".                                                              *)
(***************************************************************************)
Idle ==
    [op |-> "none", pc |-> "idle",
     name |-> EmptyStr, params |-> NoParams, caps |-> NilCaps, capacity |-> 0,
     volumeID |-> EmptyStr, bucketName |-> EmptyStr, prefix |-> EmptyStr,
     meta |-> NoFSMeta, calls |-> << >>,
     code |-> "", volumeId |-> EmptyStr, capacityBytes |-> 0,
     context |-> NoParams, confirmed |-> NilCaps, message |-> ""]

\* a handler that has just been entered
NewCreateVolume(req) ==
    [Idle EXCEPT !.op = "CreateVolume", !.pc = "enter",
                 !.name = req.name, !.params = req.params, !.caps = req.caps,
                 !.capacity = req.capacity]

NewDeleteVolume(volumeID) ==
    [Idle EXCEPT !.op = "DeleteVolume", !.pc = "enter",
                 !.volumeID = volumeID]

NewValidateVolumeCapabilities(volumeID, caps) ==
    [Idle EXCEPT !.op = "ValidateVolumeCapabilities", !.pc = "enter",
                 !.volumeID = volumeID, !.caps = caps]

NewControllerExpandVolume ==
    [Idle EXCEPT !.op = "ControllerExpandVolume", !.pc = "enter"]

\* the result of one step: the backend and the handler after it
After(be, h) == [be |-> be, h |-> h]

\* the handler has made call c and makes the call pc next
Goto(be, h, c, pc) ==
    After(be, [h EXCEPT !.pc = pc, !.calls = Append(@, c)])

\* the same, having assigned meta
GotoWith(be, h, c, pc, meta) ==
    After(be, [h EXCEPT !.pc = pc, !.calls = Append(@, c), !.meta = meta])

\* the handler returns code; the request is kept no longer
Return(be, h, code) ==
    After(be, [h EXCEPT !.pc = "done", !.code = code,
                        !.name = EmptyStr, !.params = NoParams, !.caps = NilCaps,
                        !.capacity = 0, !.volumeID = EmptyStr,
                        !.bucketName = EmptyStr, !.prefix = EmptyStr])

\* the handler has made call c and returns code
Finish(be, h, c, code) ==
    Return(be, [h EXCEPT !.calls = Append(@, c)], code)

(***************************************************************************)
(* CreateVolume (controllerserver.go, lines 46-137)                        *)
(***************************************************************************)
\* lines 49-58: the volume id, bucket and prefix of a request
CreateVolumeTarget(name, params) ==
    LET volumeID == sanitizeVolumeID(name)
    IN  IF BucketKey \in DOMAIN params
        THEN [volumeID |-> PathJoin(params[BucketKey], volumeID),
              bucketName |-> params[BucketKey],
              prefix |-> volumeID]
        ELSE [volumeID |-> volumeID, bucketName |-> volumeID, prefix |-> EmptyStr]

\* line 75: params[mounter.TypeKey], the empty string without the key
MounterOf(params) == IF TypeKey \in DOMAIN params THEN params[TypeKey] ELSE EmptyStr

\* line 66
NameMissing(volumeID) == Len(volumeID) = 0

\* lines 69, 194: req.GetVolumeCapabilities() == nil
CapabilitiesMissing(caps) == caps.isNil

\* faulty variants of line 102: the comparison includes equality, or is turned round
CapacityTooBig_Geq(capacityBytes, meta) == capacityBytes >= meta.CapacityBytes

CapacityTooBig_Less(capacityBytes, meta) == capacityBytes < meta.CapacityBytes

\* line 102
CapacityTooBig(capacityBytes, meta) == capacityBytes > meta.CapacityBytes

\* faulty variant of line 98: the fallback record claims the bucket
FallbackFSMeta_Created(bucketName, prefix, mounter, capacityBytes) ==
    [BucketName |-> bucketName, Prefix |-> prefix, Mounter |-> mounter,
     CapacityBytes |-> capacityBytes, FSPath |-> defaultFsPath,
     CreatedByCsi |-> TRUE]

\* faulty variant of line 96: the fallback record leaves the capacity unset
FallbackFSMeta_NoCapacity(bucketName, prefix, mounter, capacityBytes) ==
    [BucketName |-> bucketName, Prefix |-> prefix, Mounter |-> mounter,
     CapacityBytes |-> 0, FSPath |-> defaultFsPath,
     CreatedByCsi |-> FALSE]

\* lines 92-99: the record written when the metadata of an existing bucket
\* cannot be read
FallbackFSMeta(bucketName, prefix, mounter, capacityBytes) ==
    [BucketName |-> bucketName, Prefix |-> prefix, Mounter |-> mounter,
     CapacityBytes |-> capacityBytes, FSPath |-> defaultFsPath,
     CreatedByCsi |-> FALSE]

\* faulty variant of line 122: CreatedByCsi takes exists instead of !exists
NewFSMeta_Exists(bucketName, prefix, mounter, capacityBytes, exists) ==
    [BucketName |-> bucketName, Prefix |-> prefix, Mounter |-> mounter,
     CapacityBytes |-> capacityBytes, FSPath |-> defaultFsPath,
     CreatedByCsi |-> exists]

\* lines 116-123: the record of a bucket this call created (exists is false)
NewFSMeta(bucketName, prefix, mounter, capacityBytes, exists) ==
    [BucketName |-> bucketName, Prefix |-> prefix, Mounter |-> mounter,
     CapacityBytes |-> capacityBytes, FSPath |-> defaultFsPath,
     CreatedByCsi |-> ~exists]

\* faulty variant of line 107: the record is rebuilt as in the fallback, not updated
WithMounter_Rebuilt(meta, mounter) ==
    [meta EXCEPT !.Mounter = mounter, !.CreatedByCsi = FALSE]

\* faulty variant of line 107: the stored capacity is reset as well
WithMounter_Shrunk(meta, mounter) ==
    [meta EXCEPT !.Mounter = mounter, !.CapacityBytes = 0]

\* line 107
WithMounter(meta, mounter) == [meta EXCEPT !.Mounter = mounter]

\* lines 46-81: the argument checks and the client.  fail: the call fails
CreateVolumeEnter(be, req, fail) ==
    LET t == CreateVolumeTarget(req.name, req.params)
        h == [NewCreateVolume(req) EXCEPT !.volumeID = t.volumeID,
                                          !.bucketName = t.bucketName,
                                          !.prefix = t.prefix]
    IN  IF ~ValidateControllerServiceRequest("CREATE_DELETE_VOLUME")
        THEN Return(be, h, "InvalidArgument")
        ELSE IF NameMissing(h.volumeID) THEN Return(be, h, "InvalidArgument")
        ELSE IF CapabilitiesMissing(h.caps) THEN Return(be, h, "InvalidArgument")
        ELSE IF fail
        THEN Finish(be, h, Call("NewClientFromSecret", EmptyStr, "err"), "BackendError")
        ELSE Goto(be, h, Call("NewClientFromSecret", EmptyStr, "ok"), "BucketExists")

\* lines 82-87, 109
CreateVolumeBucketExists(be, h, fail) ==
    IF fail
    THEN Finish(be, h, Call("BucketExists", h.bucketName, "err"), "BackendError")
    ELSE IF BucketExists(be, h.bucketName)
    THEN Goto(be, h, Call("BucketExists", h.bucketName, "true"), "GetFSMeta")
    ELSE Goto(be, h, Call("BucketExists", h.bucketName, "false"), "CreateBucket")

\* faulty variant of lines 102-107: the mounter is stored before the request is refused
CreateVolumeRefused_Stored(be, h, meta, mounter, c) ==
    Finish(SetFSMeta(be, WithMounter(meta, mounter)),
           [h EXCEPT !.calls = Append(@, c)],
           CallOn("SetFSMeta", meta.BucketName, meta.Prefix, "ok"), "AlreadyExists")

\* lines 102-106: the request asks for more than the stored capacity
CreateVolumeRefused(be, h, meta, mounter, c) == Finish(be, h, c, "AlreadyExists")

\* lines 88-108: the bucket exists
CreateVolumeGetFSMeta(be, h, fail) ==
    LET mounter == MounterOf(h.params)
    IN  IF fail \/ ~HasFSMeta(be, h.bucketName, h.prefix)
        THEN GotoWith(be, h, CallOn("GetFSMeta", h.bucketName, h.prefix, "err"), "SetFSMeta",
                      FallbackFSMeta(h.bucketName, h.prefix, mounter, h.capacity))
        ELSE LET meta == GetFSMeta(be, h.bucketName, h.prefix)
                 c == CallOn("GetFSMeta", h.bucketName, h.prefix, "ok")
             IN  IF CapacityTooBig(h.capacity, meta)
                 THEN CreateVolumeRefused(be, h, meta, mounter, c)
                 ELSE GotoWith(be, h, c, "SetFSMeta", WithMounter(meta, mounter))

\* lines 110-112
CreateVolumeCreateBucket(be, h, fail) ==
    IF fail
    THEN Finish(be, h, Call("CreateBucket", h.bucketName, "err"), "BackendError")
    ELSE Goto(CreateBucket(be, h.bucketName), h,
              Call("CreateBucket", h.bucketName, "ok"), "CreatePrefix")

\* lines 113-124
CreateVolumeCreatePrefix(be, h, fail) ==
    LET fsPath == PathJoin(h.prefix, defaultFsPath)
    IN  IF fail
        THEN Finish(be, h, CallOn("CreatePrefix", h.bucketName, fsPath, "err"), "BackendError")
        ELSE GotoWith(CreatePrefix(be, h.bucketName, fsPath), h,
                      CallOn("CreatePrefix", h.bucketName, fsPath, "ok"), "SetFSMeta",
                      NewFSMeta(h.bucketName, h.prefix, MounterOf(h.params), h.capacity, FALSE))

\* lines 125-136: SetFSMeta and the response
CreateVolumeSetFSMeta(be, h, fail) ==
    LET meta == h.meta
    IN  IF fail
        THEN Finish(be, h, CallOn("SetFSMeta", meta.BucketName, meta.Prefix, "err"), "BackendError")
        ELSE Finish(SetFSMeta(be, meta),
                    [h EXCEPT !.volumeId = h.volumeID,
                              !.capacityBytes = h.capacity,
                              !.context = h.params],
                    CallOn("SetFSMeta", meta.BucketName, meta.Prefix, "ok"), "OK")

(***************************************************************************)
(* DeleteVolume (controllerserver.go, lines 139-186)                       *)
(***************************************************************************)
\* line 167
PrefixGiven(prefix) == prefix # EmptyStr

\* faulty variant of line 172: the bucket is removed whatever the record says
RemovesBucket_Always(meta) == TRUE

\* line 172
RemovesBucket(meta) == meta.CreatedByCsi

\* lines 139-157: the argument checks and the client
DeleteVolumeEnter(be, volumeID, fail) ==
    LET bp == volumeIDToBucketPrefix(volumeID)
        h == [NewDeleteVolume(volumeID) EXCEPT !.bucketName = bp[1], !.prefix = bp[2]]
    IN  IF Len(volumeID) = 0 THEN Return(be, h, "InvalidArgument")
        ELSE IF ~ValidateControllerServiceRequest("CREATE_DELETE_VOLUME")
        THEN Return(be, h, "InvalidArgument")
        ELSE IF fail
        THEN Finish(be, h, Call("NewClientFromSecret", EmptyStr, "err"), "BackendError")
        ELSE Goto(be, h, Call("NewClientFromSecret", EmptyStr, "ok"), "BucketExists")

\* faulty variant of lines 181-185: a missing bucket is reported as an error
DeleteVolumeMissing_NotFound(be, h, c) == Finish(be, h, c, "NotFound")

\* lines 181-185: the bucket does not exist
DeleteVolumeMissing(be, h, c) == Finish(be, h, c, "OK")

\* lines 158-162
DeleteVolumeBucketExists(be, h, fail) ==
    IF fail
    THEN Finish(be, h, Call("BucketExists", h.bucketName, "err"), "BackendError")
    ELSE IF BucketExists(be, h.bucketName)
    THEN Goto(be, h, Call("BucketExists", h.bucketName, "true"), "GetFSMeta")
    ELSE DeleteVolumeMissing(be, h, Call("BucketExists", h.bucketName, "false"))

\* lines 172-180, once the prefix is dealt with: the bucket is removed when
\* the metadata says csi-s3 made it, else the handler returns
DeleteVolumeBucket(be, h, c, meta) ==
    IF RemovesBucket(meta)
    THEN GotoWith(be, h, c, "RemoveBucket", meta)
    ELSE Finish(be, [h EXCEPT !.meta = meta], c, "OK")

\* faulty variant of lines 163-166: without the record the prefix is removed all the same
DeleteVolumeUnreadable_Proceeds(be, h, c) ==
    IF PrefixGiven(h.prefix)
    THEN Finish(RemovePrefix(be, h.bucketName, h.prefix), [h EXCEPT !.calls = Append(@, c)],
                CallOn("RemovePrefix", h.bucketName, h.prefix, "ok"), "OK")
    ELSE Finish(be, h, c, "OK")

\* lines 163-166: the metadata cannot be read
DeleteVolumeUnreadable(be, h, c) == Finish(be, h, c, "BackendError")

\* lines 163-167, 172
DeleteVolumeGetFSMeta(be, h, fail) ==
    LET bucketName == h.bucketName
        prefix == h.prefix
    IN  IF fail \/ ~HasFSMeta(be, bucketName, prefix)
        THEN DeleteVolumeUnreadable(be, h, CallOn("GetFSMeta", bucketName, prefix, "err"))
        ELSE LET meta == GetFSMeta(be, bucketName, prefix)
                 c == CallOn("GetFSMeta", bucketName, prefix, "ok")
             IN  IF PrefixGiven(prefix)
                 THEN GotoWith(be, h, c, "RemovePrefix", meta)
                 ELSE DeleteVolumeBucket(be, h, c, meta)

\* lines 168-172
DeleteVolumeRemovePrefix(be, h, fail) ==
    LET bucketName == h.bucketName
        prefix == h.prefix
    IN  IF fail
        THEN Finish(be, h, CallOn("RemovePrefix", bucketName, prefix, "err"), "BackendError")
        ELSE DeleteVolumeBucket(RemovePrefix(be, bucketName, prefix), h,
                                CallOn("RemovePrefix", bucketName, prefix, "ok"), h.meta)

\* lines 173-185
DeleteVolumeRemoveBucket(be, h, fail) ==
    IF fail
    THEN Finish(be, h, Call("RemoveBucket", h.bucketName, "err"), "BackendError")
    ELSE Finish(RemoveBucket(be, h.bucketName), h,
                Call("RemoveBucket", h.bucketName, "ok"), "OK")

(***************************************************************************)
(* ValidateVolumeCapabilities (controllerserver.go, lines 188-238)         *)
(***************************************************************************)
\* faulty variant of line 224: every mode is taken as supported
Unsupported_Never(mode) == FALSE

\* line 224: a capability is modelled by the mode of its access mode
Unsupported(mode) == mode # SINGLE_NODE_WRITER

\* lines 191-202: the argument checks and the client
ValidateEnter(be, volumeID, caps, fail) ==
    IF Len(volumeID) = 0 THEN Return(be, NewValidateVolumeCapabilities(volumeID, caps), "InvalidArgument")
    ELSE IF CapabilitiesMissing(caps)
    THEN Return(be, NewValidateVolumeCapabilities(volumeID, caps), "InvalidArgument")
    ELSE LET bp == volumeIDToBucketPrefix(volumeID)
             h == [NewValidateVolumeCapabilities(volumeID, caps)
                       EXCEPT !.bucketName = bp[1], !.prefix = bp[2]]
         IN  IF fail
             THEN Finish(be, h, Call("NewClientFromSecret", EmptyStr, "err"), "BackendError")
             ELSE Goto(be, h, Call("NewClientFromSecret", EmptyStr, "ok"), "BucketExists")

\* lines 203-211
ValidateBucketExists(be, h, fail) ==
    IF fail
    THEN Finish(be, h, Call("BucketExists", h.bucketName, "err"), "BackendError")
    ELSE IF ~BucketExists(be, h.bucketName)
    THEN Finish(be, h, Call("BucketExists", h.bucketName, "false"), "NotFound")
    ELSE Goto(be, h, Call("BucketExists", h.bucketName, "true"), "GetFSMeta")

\* faulty variant of lines 223-227: only the first capability is looked at
ValidateModes_FirstOnly(be, h, c) ==
    IF Len(h.caps.modes) > 0 /\ Unsupported(h.caps.modes[1])
    THEN Finish(be, [h EXCEPT !.message = "Only single node writer is supported"], c, "OK")
    ELSE Finish(be, [h EXCEPT !.confirmed =
                                  [isNil |-> FALSE, modes |-> << SINGLE_NODE_WRITER >>]],
                c, "OK")

\* lines 218-237: the response for the capabilities asked about
ValidateModes(be, h, c) ==
    IF \E i \in 1..Len(h.caps.modes) : Unsupported(h.caps.modes[i])
    THEN Finish(be, [h EXCEPT !.message = "Only single node writer is supported"], c, "OK")
    ELSE Finish(be, [h EXCEPT !.confirmed =
                                  [isNil |-> FALSE, modes |-> << SINGLE_NODE_WRITER >>]],
                c, "OK")

\* lines 213-237
ValidateGetFSMeta(be, h, fail) ==
    IF fail \/ ~HasFSMeta(be, h.bucketName, h.prefix)
    THEN Finish(be, h, CallOn("GetFSMeta", h.bucketName, h.prefix, "err"), "NotFound")
    ELSE ValidateModes(be, h, CallOn("GetFSMeta", h.bucketName, h.prefix, "ok"))

(***************************************************************************)
(* ControllerExpandVolume (controllerserver.go, lines 240-242)             *)
(***************************************************************************)
\* faulty variant of line 241: the stub answers without an error
ControllerExpandVolume_Ok(be) == Reply("OK", << >>, be)

ControllerExpandVolume(be) == Reply("Unimplemented", << >>, be)

\* the handler of ControllerExpandVolume from its entry to its return
ExpandStep(be) ==
    LET rep == ControllerExpandVolume(be)
    IN  Return(rep.be, [NewControllerExpandVolume EXCEPT !.calls = rep.calls], rep.code)

(***************************************************************************)
(* The client calls of the handlers, and a handler run to its return       *)
(***************************************************************************)
\* the call of BucketExists of handler h on backend be, with the handler's
\* code up to its next client call; fail: the call fails
BucketExistsStep(be, h, fail) ==
    CASE h.op = "CreateVolume" -> CreateVolumeBucketExists(be, h, fail)
      [] h.op = "DeleteVolume" -> DeleteVolumeBucketExists(be, h, fail)
      [] h.op = "ValidateVolumeCapabilities" -> ValidateBucketExists(be, h, fail)

GetFSMetaStep(be, h, fail) ==
    CASE h.op = "CreateVolume" -> CreateVolumeGetFSMeta(be, h, fail)
      [] h.op = "DeleteVolume" -> DeleteVolumeGetFSMeta(be, h, fail)
      [] h.op = "ValidateVolumeCapabilities" -> ValidateGetFSMeta(be, h, fail)

\* the next client call of handler h
HandlerStep(be, h, fail) ==
    CASE h.pc = "BucketExists" -> BucketExistsStep(be, h, fail)
      [] h.pc = "GetFSMeta" -> GetFSMetaStep(be, h, fail)
      [] h.pc = "CreateBucket" -> CreateVolumeCreateBucket(be, h, fail)
      [] h.pc = "CreatePrefix" -> CreateVolumeCreatePrefix(be, h, fail)
      [] h.pc = "SetFSMeta" -> CreateVolumeSetFSMeta(be, h, fail)
      [] h.pc = "RemovePrefix" -> DeleteVolumeRemovePrefix(be, h, fail)
      [] h.pc = "RemoveBucket" -> DeleteVolumeRemoveBucket(be, h, fail)

\* what the handler returned, and the backend then
ReplyOf(be, h) ==
    [code |-> h.code, volumeId |-> h.volumeId, capacityBytes |-> h.capacityBytes,
     context |-> h.context, confirmed |-> h.confirmed, message |-> h.message,
     calls |-> h.calls, be |-> be]

\* a handler that has been entered (r: the backend and the handler then), run
\* to its return with no call of another handler in between; fails: the
\* client calls that fail
RECURSIVE Run(_, _)
Run(r, fails) ==
    IF r.h.pc = "done" THEN ReplyOf(r.be, r.h)
    ELSE Run(HandlerStep(r.be, r.h, r.h.pc \in fails), fails)

\* req: [name, params, caps, capacity]
CreateVolume(be, req, fails) ==
    Run(CreateVolumeEnter(be, req, "NewClientFromSecret" \in fails), fails)

DeleteVolume(be, volumeID, fails) ==
    Run(DeleteVolumeEnter(be, volumeID, "NewClientFromSecret" \in fails), fails)

ValidateVolumeCapabilities(be, volumeID, caps, fails) ==
    Run(ValidateEnter(be, volumeID, caps, "NewClientFromSecret" \in fails), fails)
(***************************************************************************)
(* The controller as a state machine.  The gRPC server runs every request  *)
(* in a goroutine of its own and the handlers take no lock, so the client  *)
(* calls of the handlers in progress interleave.  backend is the object    *)
(* store; inflight[p] is the handler in slot p, Idle when the slot is      *)
(* free.  A handler that has returned is shown in its slot, with what it   *)
(* returned, for one state: sending the reply touches nothing the other    *)
(* handlers see, so the slot is cleared before any other step is taken.    *)
(* codec is a call of one of the two identifier functions on its own: the  *)
(* function, its argument and what it returned.                            *)
(***************************************************************************)
VARIABLES backend, inflight, codec

vars == << backend, inflight, codec >>

\* the requests the server handles at once
Procs == {1, 2}

\* largest capacity requested
MaxCap == 1

\* longest capability list
MaxCaps == 2

Names == {EmptyStr, << "A" >>}

BucketOverrides == {<< "a" >>}

Mounters == {<< "m" >>}

VolumeIDs == {EmptyStr, << "a" >>, << "a", "/", "a" >>}

\* buckets that may exist before the controller's first request
ForeignBuckets == {<< "a" >>}

AccessModes == {SINGLE_NODE_WRITER, "MULTI_NODE_MULTI_WRITER"}

Capacities == 0..MaxCap

\* the parameter maps: with the bucket override, with the mounter type, or empty
ParamMaps ==
    {NoParams}
    \cup {[k \in {BucketKey} |-> b] : b \in BucketOverrides}
    \cup {[k \in {TypeKey} |-> m] : m \in Mounters}

\* the capability lists of the CreateVolume requests: only nil or not matters there
CreateCapLists ==
    {NilCaps, [isNil |-> FALSE, modes |-> << SINGLE_NODE_WRITER >>]}

CapLists ==
    {NilCaps}
    \cup {[isNil |-> FALSE, modes |-> m] :
             m \in UNION {[1..n -> AccessModes] : n \in 0..MaxCaps}}

\* which client calls fail during one request.  A handler returns at the
\* first failing call, except that CreateVolume carries on after a failed
\* GetFSMeta: every set of failing calls acts as one of these
CreateFailures ==
    {{}} \cup {{"GetFSMeta", "SetFSMeta"}}
    \cup {{c} : c \in {"NewClientFromSecret", "BucketExists", "GetFSMeta", "SetFSMeta",
                       "CreateBucket", "CreatePrefix"}}

DeleteFailures ==
    {{}} \cup {{c} : c \in {"NewClientFromSecret", "BucketExists", "GetFSMeta",
                            "RemovePrefix", "RemoveBucket"}}

ValidateFailures ==
    {{}} \cup {{c} : c \in {"NewClientFromSecret", "BucketExists", "GetFSMeta"}}

CreateRequests == [name : Names, params : ParamMaps, caps : CreateCapLists, capacity : Capacities]

\* no identifier function has been called on its own
NoCodec == [fn |-> "none", arg |-> EmptyStr, out |-> << >>]

Init ==
    /\ codec = NoCodec
    /\ \E pre \in SUBSET ForeignBuckets :
           backend = [buckets |-> pre, fsmeta |-> [k \in {} |-> 0],
                      prefixes |-> {}, created |-> {}]
    /\ inflight = [p \in Procs |-> Idle]

\* faulty variant: a handler waits while another one is between its calls
MayStep_Locked(p) ==
    \A q \in Procs \ {p} : inflight[q].pc \in {"idle", "done"}

\* lines 46-238 take no lock: a handler's next call never waits for another handler
MayStep(p) == TRUE

\* no handler has returned without its slot being cleared
NoReplyPending == \A q \in Procs : inflight[q].pc # "done"

\* a request takes the first free slot
FreeSlot(p) ==
    /\ NoReplyPending
    /\ inflight[p] = Idle
    /\ \A q \in Procs : q < p => inflight[q] # Idle

\* the handler in slot p has taken a step to r: the backend and the handler then
Lands(p, r) ==
    /\ backend' = r.be
    /\ inflight' = [inflight EXCEPT ![p] = r.h]
    /\ UNCHANGED codec

\* a request arrives: its handler checks the arguments and builds its client,
\* which touches no state of the object store
EnterCreateVolume(p) ==
    /\ FreeSlot(p)
    /\ \E req \in CreateRequests, fail \in BOOLEAN :
           Lands(p, CreateVolumeEnter(backend, req, fail))

EnterDeleteVolume(p) ==
    /\ FreeSlot(p)
    /\ \E volumeID \in VolumeIDs, fail \in BOOLEAN :
           Lands(p, DeleteVolumeEnter(backend, volumeID, fail))

EnterValidateVolumeCapabilities(p) ==
    /\ FreeSlot(p)
    /\ \E volumeID \in VolumeIDs, caps \in CapLists, fail \in BOOLEAN :
           Lands(p, ValidateEnter(backend, volumeID, caps, fail))

\* ControllerExpandVolume returns at once
DoControllerExpandVolume(p) ==
    /\ FreeSlot(p)
    /\ Lands(p, ExpandStep(backend))

\* the handler in slot p stands before the client call fn and nothing holds it back
CanCall(p, fn) ==
    /\ NoReplyPending
    /\ inflight[p].pc = fn
    /\ MayStep(p)

\* the client calls of the handler in slot p, each of which fails or not
StepBucketExists(p) ==
    /\ CanCall(p, "BucketExists")
    /\ \E fail \in BOOLEAN : Lands(p, BucketExistsStep(backend, inflight[p], fail))

StepGetFSMeta(p) ==
    /\ CanCall(p, "GetFSMeta")
    /\ \E fail \in BOOLEAN : Lands(p, GetFSMetaStep(backend, inflight[p], fail))

StepCreateBucket(p) ==
    /\ CanCall(p, "CreateBucket")
    /\ \E fail \in BOOLEAN : Lands(p, CreateVolumeCreateBucket(backend, inflight[p], fail))

StepCreatePrefix(p) ==
    /\ CanCall(p, "CreatePrefix")
    /\ \E fail \in BOOLEAN : Lands(p, CreateVolumeCreatePrefix(backend, inflight[p], fail))

StepSetFSMeta(p) ==
    /\ CanCall(p, "SetFSMeta")
    /\ \E fail \in BOOLEAN : Lands(p, CreateVolumeSetFSMeta(backend, inflight[p], fail))

StepRemovePrefix(p) ==
    /\ CanCall(p, "RemovePrefix")
    /\ \E fail \in BOOLEAN : Lands(p, DeleteVolumeRemovePrefix(backend, inflight[p], fail))

StepRemoveBucket(p) ==
    /\ CanCall(p, "RemoveBucket")
    /\ \E fail \in BOOLEAN : Lands(p, DeleteVolumeRemoveBucket(backend, inflight[p], fail))

\* the next client call of the handler in slot p
Step(p) ==
    \/ StepBucketExists(p)
    \/ StepGetFSMeta(p)
    \/ StepCreateBucket(p)
    \/ StepCreatePrefix(p)
    \/ StepSetFSMeta(p)
    \/ StepRemovePrefix(p)
    \/ StepRemoveBucket(p)

\* the reply of the handler in slot p has been sent: the slot is free again
Leave(p) ==
    /\ inflight[p].pc = "done"
    /\ inflight' = [inflight EXCEPT ![p] = Idle]
    /\ UNCHANGED << backend, codec >>

Next ==
    \E p \in Procs :
        \/ EnterCreateVolume(p)
        \/ EnterDeleteVolume(p)
        \/ EnterValidateVolumeCapabilities(p)
        \/ DoControllerExpandVolume(p)
        \/ Step(p)
        \/ Leave(p)

Spec == Init /\ [][Next]_vars

(***************************************************************************)
(* The identifier functions on their own: sanitizeVolumeID and             *)
(* volumeIDToBucketPrefix are applied to strings drawn from CodecInputs.   *)
(***************************************************************************)
\* longest string of the short inputs
MaxStrLen == 4

CodecChars == {"a", "A", Slash}

\* the string of n characters c
Repeat(c, n) == [i \in 1..n |-> c]

\* names at and just over the length limit of sanitizeVolumeID, and the short
\* name that spells the digest of a long one
LongInputs ==
    {Repeat("a", MaxIDLen), Repeat("A", MaxIDLen),
     Repeat("a", MaxIDLen + 1), Repeat("A", MaxIDLen + 1), Repeat("b", MaxIDLen + 1),
     Sha1Hex(Repeat("a", MaxIDLen + 1))}

\* names with a letter outside ASCII, which takes two bytes and whose lower
\* case takes three: on its own, at the end of names of 62 and of 63 bytes, and
\* 32 times over
NonAsciiInputs ==
    {<< CapitalAStroke >>, << SmallAStroke >>,
     Repeat("a", MaxIDLen - 3) \o << CapitalAStroke >>,
     Repeat("a", MaxIDLen - 3) \o << SmallAStroke >>,
     Repeat("a", MaxIDLen - 2) \o << CapitalAStroke >>,
     Repeat("a", MaxIDLen - 2) \o << SmallAStroke >>,
     Repeat(CapitalAStroke, 32)}

CodecInputs ==
    UNION {[1..n -> CodecChars] : n \in 0..MaxStrLen} \cup LongInputs \cup NonAsciiInputs

InitCodec ==
    /\ backend = [buckets |-> {}, fsmeta |-> [k \in {} |-> 0],
                  prefixes |-> {}, created |-> {}]
    /\ inflight = [p \in Procs |-> Idle]
    /\ \E s \in CodecInputs : codec = [fn |-> "none", arg |-> s, out |-> << >>]

\* lines 244-252 applied to the argument
DoSanitizeVolumeID ==
    /\ codec.fn = "none"
    /\ codec' = [codec EXCEPT !.fn = "sanitizeVolumeID",
                              !.out = << sanitizeVolumeID(codec.arg) >>]
    /\ UNCHANGED << backend, inflight >>

\* lines 256-265 applied to the argument
DoVolumeIDToBucketPrefix ==
    /\ codec.fn = "none"
    /\ codec' = [codec EXCEPT !.fn = "volumeIDToBucketPrefix",
                              !.out = volumeIDToBucketPrefix(codec.arg)]
    /\ UNCHANGED << backend, inflight >>

NextCodec ==
    \/ DoSanitizeVolumeID
    \/ DoVolumeIDToBucketPrefix

SpecCodec == InitCodec /\ [][NextCodec]_vars

(***************************************************************************)
(* Properties                                                              *)
(***************************************************************************)
\* the calls of a log made to client function fn
CallsTo(calls, fn) == {i \in 1..Len(calls) : calls[i].fn = fn}

\* the log holds a call of fn that ended with out
Called(calls, fn, out) == \E i \in CallsTo(calls, fn) : calls[i].out = out

Mutating == {"CreateBucket", "CreatePrefix", "SetFSMeta", "RemovePrefix", "RemoveBucket"}

\* a request that passes CreateVolume's argument checks, in the request's terms
WellFormed(req) ==
    /\ ~req.caps.isNil
    /\ Len(CreateVolumeTarget(req.name, req.params).volumeID) > 0

\* the handlers that have just returned
Returned == {inflight[p] : p \in {q \in Procs : inflight[q].pc = "done"}}

\* no request is in progress: the next request finds the backend as the
\* requests before it left it.  The properties of a request on its own are
\* stated of the handler run from such a state with no call of another
\* handler in between (CreateVolume, DeleteVolume, ValidateVolumeCapabilities
\* above).
Quiet == \A p \in Procs : inflight[p] = Idle

\* in this step the handler in slot p made the client call fn, which ended with out
Made(p, fn, out) ==
    /\ Len(inflight'[p].calls) = Len(inflight[p].calls) + 1
    /\ inflight'[p].calls[Len(inflight'[p].calls)].fn = fn
    /\ inflight'[p].calls[Len(inflight'[p].calls)].out = out

\* the buckets that exist without the controller having created them
Foreign(be) == be.buckets \ be.created

\* C1: from a backend without the target bucket and with no call failing, the
\* same CreateVolume request sent twice, one after the other, succeeds twice
\* with the same volume id, CreateBucket is called once, by the first request
\* only, and the second request leaves the backend as the first left it.
C1_IdempotentReplay ==
    Quiet =>
        \A req \in CreateRequests :
            LET t == CreateVolumeTarget(req.name, req.params)
                r1 == CreateVolume(backend, req, {})
                r2 == CreateVolume(r1.be, req, {})
            IN  (WellFormed(req) /\ t.bucketName \notin backend.buckets) =>
                    /\ r1.code = "OK" /\ r2.code = "OK"
                    /\ r2.volumeId = r1.volumeId
                    /\ Cardinality(CallsTo(r1.calls, "CreateBucket")) = 1
                    /\ CallsTo(r2.calls, "CreateBucket") = {}
                    /\ r2.be = r1.be

\* a replayed CreateVolume has run: it found the bucket an earlier request
\* created, read its record and wrote it back
C1_Witness ==
    \E last \in Returned :
        /\ last.op = "CreateVolume" /\ last.code = "OK"
        /\ Called(last.calls, "BucketExists", "true")
        /\ Called(last.calls, "GetFSMeta", "ok")
        /\ Called(last.calls, "SetFSMeta", "ok")
        /\ \E k \in DOMAIN backend.fsmeta :
               /\ k[1] \in backend.created
               /\ backend.fsmeta[k].CreatedByCsi
               /\ backend.fsmeta[k].CapacityBytes = last.capacityBytes

\* C2: on an existing bucket whose metadata is read with CapacityBytes = S, a
\* CreateVolume asking for C fails with already-exists exactly when C > S
\* (whatever else fails), and for C <= S (0 included) it succeeds when the
\* write of the metadata does not fail.
C2_CapacityFloor ==
    Quiet =>
        \A req \in CreateRequests, fails \in CreateFailures :
            LET t == CreateVolumeTarget(req.name, req.params)
                rep == CreateVolume(backend, req, fails)
            IN  (/\ WellFormed(req)
                 /\ fails \cap {"NewClientFromSecret", "BucketExists", "GetFSMeta"} = {}
                 /\ t.bucketName \in backend.buckets
                 /\ << t.bucketName, t.prefix >> \in DOMAIN backend.fsmeta) =>
                    LET S == backend.fsmeta[<< t.bucketName, t.prefix >>].CapacityBytes
                    IN  /\ rep.code = "AlreadyExists" <=> req.capacity > S
                        /\ (req.capacity <= S /\ "SetFSMeta" \notin fails) => rep.code = "OK"

\* both outcomes have happened: a request was refused with already-exists, or
\* one for no more than the stored capacity was accepted
C2_WitnessRefused ==
    \E last \in Returned :
        /\ last.op = "CreateVolume" /\ last.code = "AlreadyExists"
        /\ Called(last.calls, "GetFSMeta", "ok")

C2_Witness ==
    \E last \in Returned :
        /\ last.op = "CreateVolume" /\ last.code = "OK"
        /\ Called(last.calls, "GetFSMeta", "ok")
        /\ \E k \in DOMAIN backend.fsmeta :
               backend.fsmeta[k].CapacityBytes > last.capacityBytes

\* C3: no request removes a bucket the controller did not create, whether the
\* requests run one after the other or together and whichever calls fail:
\* RemoveBucket is never called on a bucket that exists without a CreateBucket
\* of the controller having created it, and a bucket that disappears in a step
\* was created by the controller.
C3_OnlyOwnBucketsRemoved ==
    [][/\ \A p \in Procs, out \in {"ok", "err"} :
              Made(p, "RemoveBucket", out) =>
                  inflight'[p].calls[Len(inflight'[p].calls)].bucket \notin Foreign(backend)
       /\ (backend.buckets \ backend'.buckets) \subseteq backend.created]_vars

\* a DeleteVolume has read the record of a bucket the controller did not
\* create and left the bucket in place
C3_Witness ==
    \E last \in Returned :
        /\ last.op = "DeleteVolume" /\ last.code = "OK"
        /\ Called(last.calls, "GetFSMeta", "ok")
        /\ CallsTo(last.calls, "RemoveBucket") = {}
        /\ \E i \in CallsTo(last.calls, "BucketExists") :
               last.calls[i].bucket \in Foreign(backend)

\* C4: without a bucket override and with no call failing, a CreateVolume on a
\* backend without the bucket succeeds, and a DeleteVolume of the volume id it
\* returned then succeeds and removes the bucket: the backend has the buckets
\* it had, and nothing is left of the volume's bucket.
C4_CreateThenDelete ==
    Quiet =>
        \A req \in CreateRequests :
            LET t == CreateVolumeTarget(req.name, req.params)
                r1 == CreateVolume(backend, req, {})
                r2 == DeleteVolume(r1.be, r1.volumeId, {})
            IN  (/\ WellFormed(req)
                 /\ BucketKey \notin DOMAIN req.params
                 /\ t.bucketName \notin backend.buckets) =>
                    /\ r1.code = "OK"
                    /\ t.bucketName \in r1.be.buckets
                    /\ r2.code = "OK"
                    /\ Called(r2.calls, "RemoveBucket", "ok")
                    /\ t.bucketName \notin r2.be.buckets
                    /\ r2.be.buckets = backend.buckets
                    /\ r2.be.created = backend.created
                    /\ \A k \in DOMAIN r2.be.fsmeta \cup r2.be.prefixes : k[1] # t.bucketName

\* a DeleteVolume without prefix has removed the bucket
C4_Witness ==
    \E last \in Returned :
        /\ last.op = "DeleteVolume" /\ last.code = "OK"
        /\ CallsTo(last.calls, "RemovePrefix") = {}
        /\ \E i \in CallsTo(last.calls, "RemoveBucket") :
               /\ last.calls[i].out = "ok"
               /\ last.calls[i].bucket \notin backend.buckets

\* C5: a DeleteVolume with a non-empty volume id whose bucket BucketExists
\* reports absent returns success, makes no mutating call and leaves the
\* backend unchanged.
C5_DeleteMissingBucket ==
    Quiet =>
        \A volumeID \in VolumeIDs, fails \in DeleteFailures :
            LET rep == DeleteVolume(backend, volumeID, fails)
            IN  (/\ Len(volumeID) > 0
                 /\ fails \cap {"NewClientFromSecret", "BucketExists"} = {}
                 /\ volumeIDToBucketPrefix(volumeID)[1] \notin backend.buckets) =>
                    /\ rep.code = "OK"
                    /\ \A i \in 1..Len(rep.calls) : rep.calls[i].fn \notin Mutating
                    /\ rep.be = backend

\* a DeleteVolume has found its bucket absent
C5_Witness ==
    \E last \in Returned :
        /\ last.op = "DeleteVolume" /\ last.code = "OK"
        /\ Called(last.calls, "BucketExists", "false")
        /\ Len(last.calls) = 2

\* C6: a DeleteVolume whose volume id has a non-empty prefix (it calls
\* RemovePrefix) removes only what is under that prefix: the bucket still
\* exists afterwards and the records of the other prefixes of the bucket are
\* untouched, whatever CreatedByCsi the volume's record holds.
C6_SharedBucketKept ==
    Quiet =>
        \A volumeID \in VolumeIDs, fails \in DeleteFailures :
            LET bp == volumeIDToBucketPrefix(volumeID)
                rep == DeleteVolume(backend, volumeID, fails)
            IN  CallsTo(rep.calls, "RemovePrefix") # {} =>
                    /\ bp[1] \in rep.be.buckets
                    /\ \A k \in DOMAIN backend.fsmeta :
                           (k[1] = bp[1] /\ ~UnderPrefix(bp[2], k[2])) =>
                               /\ k \in DOMAIN rep.be.fsmeta
                               /\ rep.be.fsmeta[k] = backend.fsmeta[k]

\* the records stored before and after a step under the same << bucket, prefix >>
KeptKeys == DOMAIN backend.fsmeta \cap DOMAIN backend'.fsmeta

\* C7 as stated: once a record carries a CreatedByCsi value, no later
\* CreateVolume stores, on the bucket still existing, a record with another
\* value in its place.
C7_WriteOnce ==
    [][\A p \in Procs :
           (inflight'[p].op = "CreateVolume" /\ Made(p, "SetFSMeta", "ok")) =>
               \A k \in KeptKeys :
                   k[1] \in backend'.buckets =>
                       backend'.fsmeta[k].CreatedByCsi = backend.fsmeta[k].CreatedByCsi]_vars

\* C7 amended: a CreateVolume that reads the stored record holds the
\* CreatedByCsi value it read and writes the record back with that value; a
\* CreateVolume on an existing bucket whose read of the record fails holds
\* and writes CreatedByCsi = false, whatever is stored.  The write replaces
\* the one record of the volume and nothing else.
C7_WriteOnceWhenRead ==
    [][\A p \in Procs :
           inflight'[p].op = "CreateVolume" =>
               LET key == << inflight[p].bucketName, inflight[p].prefix >>
               IN  /\ (Made(p, "GetFSMeta", "ok") /\ inflight'[p].pc = "SetFSMeta") =>
                          inflight'[p].meta.CreatedByCsi = backend.fsmeta[key].CreatedByCsi
                   /\ Made(p, "GetFSMeta", "err") => ~inflight'[p].meta.CreatedByCsi
                   /\ Made(p, "SetFSMeta", "ok") =>
                          /\ backend'.fsmeta[key] = inflight[p].meta
                          /\ \A j \in KeptKeys \ {key} : backend'.fsmeta[j] = backend.fsmeta[j]
                          /\ Called(inflight[p].calls, "GetFSMeta", "err") =>
                                 ~backend'.fsmeta[key].CreatedByCsi]_vars

\* a CreateVolume has read a record marked CreatedByCsi and written it back
C7_Witness ==
    \E last \in Returned :
        /\ last.op = "CreateVolume" /\ last.code = "OK"
        /\ Called(last.calls, "GetFSMeta", "ok")
        /\ \E i \in CallsTo(last.calls, "SetFSMeta") :
               /\ << last.calls[i].bucket, last.calls[i].arg >> \in DOMAIN backend.fsmeta
               /\ backend.fsmeta[<< last.calls[i].bucket, last.calls[i].arg >>].CreatedByCsi

\* C8: ValidateVolumeCapabilities, for a non-empty volume id and a capability
\* list that is not nil, with the client built and BucketExists answering:
\* not-found when the bucket is absent or its metadata cannot be read;
\* otherwise, when some capability asks for another mode than single node
\* writer, no error, no confirmation and a message; otherwise a confirmation
\* of exactly the single node writer mode.  It never changes the backend.
C8_ValidateResult ==
    Quiet =>
        \A volumeID \in VolumeIDs, caps \in CapLists, fails \in ValidateFailures :
            LET bp == volumeIDToBucketPrefix(volumeID)
                rep == ValidateVolumeCapabilities(backend, volumeID, caps, fails)
                unreadable ==
                    "GetFSMeta" \in fails \/ << bp[1], bp[2] >> \notin DOMAIN backend.fsmeta
                other == \E i \in 1..Len(caps.modes) : caps.modes[i] # SINGLE_NODE_WRITER
            IN  /\ rep.be = backend
                /\ \A i \in 1..Len(rep.calls) : rep.calls[i].fn \notin Mutating
                /\ (/\ Len(volumeID) > 0 /\ ~caps.isNil
                    /\ fails \cap {"NewClientFromSecret", "BucketExists"} = {}) =>
                       IF bp[1] \notin backend.buckets \/ unreadable
                       THEN rep.code = "NotFound"
                       ELSE IF other
                       THEN rep.code = "OK" /\ rep.confirmed.isNil /\ rep.message # ""
                       ELSE /\ rep.code = "OK"
                            /\ ~rep.confirmed.isNil
                            /\ rep.confirmed.modes = << SINGLE_NODE_WRITER >>
                            /\ rep.message = ""

\* a validation has answered without confirming
C8_Witness ==
    \E last \in Returned :
        /\ last.op = "ValidateVolumeCapabilities" /\ last.code = "OK"
        /\ last.confirmed.isNil /\ last.message # ""
        /\ Called(last.calls, "GetFSMeta", "ok")

\* a validation of two capabilities, the first for single node writer and the
\* second for another mode, has found the bucket and is about to read the
\* stored record, after which it answers without confirming
C8_WitnessSecondOfTwo ==
    \E p \in Procs :
        LET h == inflight[p]
        IN  /\ NoReplyPending
            /\ h.op = "ValidateVolumeCapabilities" /\ h.pc = "GetFSMeta"
            /\ Len(h.caps.modes) = 2
            /\ h.caps.modes[1] = SINGLE_NODE_WRITER
            /\ h.caps.modes[2] # SINGLE_NODE_WRITER
            /\ Called(h.calls, "BucketExists", "true")
            /\ << h.bucketName, h.prefix >> \in DOMAIN backend.fsmeta
            /\ LET r == ValidateGetFSMeta(backend, h, FALSE)
               IN  /\ r.h.code = "OK" /\ r.h.confirmed.isNil /\ r.h.message # ""
                   /\ r.be = backend

\* a validation has confirmed
C8_WitnessConfirmed ==
    \E last \in Returned :
        /\ last.op = "ValidateVolumeCapabilities" /\ last.code = "OK"
        /\ ~last.confirmed.isNil

\* the CreateVolume requests with, besides, a capability list that is empty
\* without being nil
ArgumentRequests ==
    [name : Names, params : ParamMaps,
     caps : CreateCapLists \cup {[isNil |-> FALSE, modes |-> << >>]},
     capacity : Capacities]

\* C9: a CreateVolume without a name or with a nil or empty capability list
\* (with or without a bucket override), and a DeleteVolume or
\* ValidateVolumeCapabilities without a volume id (or, for the latter, without
\* a capability list), is refused with invalid-argument before any client call.
C9_RejectedBeforeAnyCall ==
    Quiet =>
        /\ \A req \in ArgumentRequests, fails \in CreateFailures :
               LET rep == CreateVolume(backend, req, fails)
               IN  (req.name = EmptyStr \/ req.caps.isNil \/ req.caps.modes = << >>) =>
                       rep.code = "InvalidArgument" /\ rep.calls = << >>
        /\ \A fails \in DeleteFailures :
               LET rep == DeleteVolume(backend, EmptyStr, fails)
               IN  rep.code = "InvalidArgument" /\ rep.calls = << >>
        /\ \A volumeID \in VolumeIDs, caps \in CapLists, fails \in ValidateFailures :
               LET rep == ValidateVolumeCapabilities(backend, volumeID, caps, fails)
               IN  (volumeID = EmptyStr \/ caps.isNil) =>
                       rep.code = "InvalidArgument" /\ rep.calls = << >>

\* C10: ControllerExpandVolume answers unimplemented in every backend state,
\* whatever the other handlers are doing, calls no client function and leaves
\* the backend unchanged.
C10_ExpandUnimplemented ==
    LET rep == ControllerExpandVolume(backend)
    IN  /\ rep.code = "Unimplemented" /\ rep.calls = << >> /\ rep.be = backend
        /\ \A last \in Returned :
               last.op = "ControllerExpandVolume" =>
                   last.code = "Unimplemented" /\ last.calls = << >>

\* ControllerExpandVolume has answered on a backend that holds a volume
C10_Witness ==
    \E last \in Returned :
        /\ last.op = "ControllerExpandVolume"
        /\ backend.buckets # {} /\ DOMAIN backend.fsmeta # {}

\* C11 as stated: in every reachable backend a stored record carries
\* CreatedByCsi = true exactly when its bucket was created by a CreateBucket
\* call of the controller.
C11_ProvenanceAccurate ==
    \A k \in DOMAIN backend.fsmeta :
        backend.fsmeta[k].CreatedByCsi <=> k[1] \in backend.created

\* C11 amended: a stored record with CreatedByCsi = true never belongs to a
\* bucket that exists without the controller having created it.  The converse
\* fails: a record written after a failed read of the metadata carries false,
\* also on a bucket the controller created.
C11_ProvenanceSound ==
    \A k \in DOMAIN backend.fsmeta :
        backend.fsmeta[k].CreatedByCsi => k[1] \notin Foreign(backend)

\* a bucket the controller created carries a record marked true and one
\* marked false
C11_Witness ==
    \E k, j \in DOMAIN backend.fsmeta :
        /\ k[1] \in backend.created /\ j[1] = k[1]
        /\ backend.fsmeta[k].CreatedByCsi
        /\ ~backend.fsmeta[j].CreatedByCsi

\* C12: nothing serialises two concurrent CreateVolume handlers.  A handler
\* that has not returned can always make its next client call, wherever the
\* other handler stands: one that saw the bucket absent calls CreateBucket
\* also when the bucket has been created since, and one that is about to
\* write its record calls SetFSMeta also when a record has been stored since.
C12_NothingSerialises ==
    NoReplyPending =>
        \A p \in Procs :
            LET h == inflight[p]
                r == HandlerStep(backend, h, FALSE)
            IN  /\ h.pc # "idle" => CanCall(p, h.pc)
                /\ h.pc = "CreateBucket" =>
                       /\ r.h.calls = Append(h.calls, r.h.calls[Len(r.h.calls)])
                       /\ r.h.calls[Len(r.h.calls)].fn = "CreateBucket"
                       /\ r.h.calls[Len(r.h.calls)].out = "ok"
                /\ (h.op = "CreateVolume" /\ h.pc = "SetFSMeta") =>
                       /\ r.h.code = "OK"
                       /\ r.be.fsmeta[<< h.meta.BucketName, h.meta.Prefix >>] = h.meta

\* two CreateVolume handlers for one volume both saw the bucket absent and
\* both called CreateBucket; one has stored its record and returned success,
\* and the other stands before its SetFSMeta with another record, which will
\* replace the stored one
C12_Witness ==
    \E p, q \in Procs :
        /\ inflight[p].op = "CreateVolume" /\ inflight[q].op = "CreateVolume"
        /\ inflight[p].pc = "done" /\ inflight[p].code = "OK"
        /\ inflight[q].pc = "SetFSMeta"
        /\ \A h \in {inflight[p], inflight[q]} :
               /\ Called(h.calls, "BucketExists", "false")
               /\ Called(h.calls, "CreateBucket", "ok")
        /\ Called(inflight[p].calls, "SetFSMeta", "ok")
        /\ inflight[q].meta.BucketName = inflight[p].meta.BucketName
        /\ inflight[q].meta.Prefix = inflight[p].meta.Prefix
        /\ backend.fsmeta[<< inflight[p].meta.BucketName, inflight[p].meta.Prefix >>]
               = inflight[p].meta
        /\ inflight[q].meta # inflight[p].meta

\* C13: when a CreateVolume on an absent bucket returns a backend error after
\* CreateBucket succeeded (CreatePrefix or SetFSMeta failed), the same request
\* sent again without a failure succeeds and leaves the backend as one
\* CreateVolume without a failure would have: the bucket, the reserved
\* sub-path, and a record with CreatedByCsi = true and the requested capacity.
C13_RetryConverges ==
    Quiet =>
        \A req \in CreateRequests, fails \in {{"CreatePrefix"}, {"SetFSMeta"}} :
            LET t == CreateVolumeTarget(req.name, req.params)
                r1 == CreateVolume(backend, req, fails)
                r2 == CreateVolume(r1.be, req, {})
                once == CreateVolume(backend, req, {})
            IN  (WellFormed(req) /\ t.bucketName \notin backend.buckets) =>
                    /\ r1.code = "BackendError"
                    /\ Called(r1.calls, "CreateBucket", "ok")
                    /\ r2.code = "OK"
                    /\ t.bucketName \in r2.be.buckets
                    /\ << t.bucketName, PathJoin(t.prefix, defaultFsPath) >> \in r2.be.prefixes
                    /\ r2.be.fsmeta[<< t.bucketName, t.prefix >>].CreatedByCsi
                    /\ r2.be.fsmeta[<< t.bucketName, t.prefix >>].CapacityBytes = req.capacity
                    /\ r2.be = once.be

\* C14: a CreateVolume on an existing bucket whose record is read and holds a
\* capacity no smaller than the requested one changes nothing in the backend
\* but the Mounter field of that record: BucketName, Prefix, FSPath,
\* CreatedByCsi and CapacityBytes are written back as read, and a successful
\* call leaves Mounter equal to the request's mounter.
C14_OnlyMounterChanges ==
    Quiet =>
        \A req \in CreateRequests, fails \in CreateFailures :
            LET t == CreateVolumeTarget(req.name, req.params)
                key == << t.bucketName, t.prefix >>
                mounter == MounterOf(req.params)
                rep == CreateVolume(backend, req, fails)
            IN  (/\ WellFormed(req)
                 /\ fails \cap {"NewClientFromSecret", "BucketExists", "GetFSMeta"} = {}
                 /\ t.bucketName \in backend.buckets
                 /\ key \in DOMAIN backend.fsmeta
                 /\ backend.fsmeta[key].CapacityBytes >= req.capacity) =>
                    /\ rep.be.buckets = backend.buckets
                    /\ rep.be.prefixes = backend.prefixes
                    /\ DOMAIN rep.be.fsmeta = DOMAIN backend.fsmeta
                    /\ \A k \in DOMAIN backend.fsmeta \ {key} : rep.be.fsmeta[k] = backend.fsmeta[k]
                    /\ [rep.be.fsmeta[key] EXCEPT !.Mounter = EmptyStr]
                           = [backend.fsmeta[key] EXCEPT !.Mounter = EmptyStr]
                    /\ rep.code = "OK" => rep.be.fsmeta[key].Mounter = mounter
                    /\ "SetFSMeta" \notin fails => rep.code = "OK"

\* a request for less than the stored capacity and with another mounter has
\* been accepted: the record keeps its capacity and carries the new mounter
C14_Witness ==
    \E last \in Returned :
        /\ last.op = "CreateVolume" /\ last.code = "OK"
        /\ Called(last.calls, "GetFSMeta", "ok")
        /\ \E i \in CallsTo(last.calls, "SetFSMeta") :
               LET key == << last.calls[i].bucket, last.calls[i].arg >>
               IN  /\ key \in DOMAIN backend.fsmeta
                   /\ backend.fsmeta[key].CapacityBytes > last.capacityBytes
                   /\ backend.fsmeta[key].Mounter # EmptyStr

\* C15: a CreateVolume refused with already-exists has changed nothing: it
\* called neither CreateBucket, CreatePrefix nor SetFSMeta, and the backend,
\* the stored record with its Mounter field included, is as it was.
C15_RefusalChangesNothing ==
    Quiet =>
        \A req \in CreateRequests, fails \in CreateFailures :
            LET rep == CreateVolume(backend, req, fails)
            IN  rep.code = "AlreadyExists" =>
                    /\ \A i \in 1..Len(rep.calls) : rep.calls[i].fn \notin Mutating
                    /\ rep.be = backend

\* a request has been refused with already-exists after three reading calls,
\* and the record it read is stored
C15_Witness ==
    \E last \in Returned :
        /\ last.op = "CreateVolume" /\ last.code = "AlreadyExists"
        /\ Len(last.calls) = 3
        /\ \E i \in CallsTo(last.calls, "GetFSMeta") :
               /\ last.calls[i].out = "ok"
               /\ << last.calls[i].bucket, last.calls[i].arg >> \in DOMAIN backend.fsmeta

\* C16: when CreateVolume finds the bucket present and the read of its
\* metadata fails, the request is not refused, whatever capacity is stored: it
\* calls no CreateBucket and, when the write does not fail, it returns success
\* having stored a record with CreatedByCsi = false, the requested capacity,
\* the request's mounter and the fixed FSPath.
C16_UnreadableFallback ==
    Quiet =>
        \A req \in CreateRequests, fails \in CreateFailures :
            LET t == CreateVolumeTarget(req.name, req.params)
                key == << t.bucketName, t.prefix >>
                mounter == MounterOf(req.params)
                rep == CreateVolume(backend, req, fails)
            IN  (/\ WellFormed(req)
                 /\ fails \cap {"NewClientFromSecret", "BucketExists"} = {}
                 /\ t.bucketName \in backend.buckets
                 /\ ("GetFSMeta" \in fails \/ key \notin DOMAIN backend.fsmeta)) =>
                    /\ rep.code # "AlreadyExists"
                    /\ CallsTo(rep.calls, "CreateBucket") = {}
                    /\ CallsTo(rep.calls, "CreatePrefix") = {}
                    /\ rep.be.buckets = backend.buckets
                    /\ "SetFSMeta" \notin fails =>
                           /\ rep.code = "OK"
                           /\ rep.volumeId = t.volumeID
                           /\ rep.be.fsmeta[key] =
                                  [BucketName |-> t.bucketName, Prefix |-> t.prefix,
                                   Mounter |-> mounter, CapacityBytes |-> req.capacity,
                                   FSPath |-> << "c", "s", "i", "-", "f", "s" >>,
                                   CreatedByCsi |-> FALSE]

\* a CreateVolume whose read of the metadata failed has stored a record with
\* CreatedByCsi = false and the capacity it asked for
C16_Witness ==
    \E last \in Returned :
        /\ last.op = "CreateVolume" /\ last.code = "OK"
        /\ Called(last.calls, "GetFSMeta", "err")
        /\ last.capacityBytes > 0
        /\ \E i \in CallsTo(last.calls, "SetFSMeta") :
               LET key == << last.calls[i].bucket, last.calls[i].arg >>
               IN  /\ ~backend.fsmeta[key].CreatedByCsi
                   /\ backend.fsmeta[key].CapacityBytes = last.capacityBytes

\* C17: a DeleteVolume that finds the bucket present and cannot read its
\* metadata returns an error, has called neither RemovePrefix nor RemoveBucket
\* and leaves the backend unchanged, with an empty prefix and with a
\* non-empty one.
C17_DeleteUnreadable ==
    Quiet =>
        \A volumeID \in VolumeIDs, fails \in DeleteFailures :
            LET bp == volumeIDToBucketPrefix(volumeID)
                rep == DeleteVolume(backend, volumeID, fails)
            IN  (/\ Len(volumeID) > 0
                 /\ fails \cap {"NewClientFromSecret", "BucketExists"} = {}
                 /\ bp[1] \in backend.buckets
                 /\ ("GetFSMeta" \in fails \/ << bp[1], bp[2] >> \notin DOMAIN backend.fsmeta)) =>
                    /\ rep.code = "BackendError"
                    /\ \A i \in 1..Len(rep.calls) : rep.calls[i].fn \notin Mutating
                    /\ rep.be = backend

\* a DeleteVolume with a non-empty prefix has failed on the read of the
\* metadata of a bucket that holds records
C17_Witness ==
    \E last \in Returned :
        /\ last.op = "DeleteVolume" /\ last.code = "BackendError"
        /\ \E i \in CallsTo(last.calls, "GetFSMeta") :
               /\ last.calls[i].out = "err"
               /\ last.calls[i].arg # EmptyStr
               /\ last.calls[i].bucket \in backend.buckets
               /\ \E k \in DOMAIN backend.fsmeta : k[1] = last.calls[i].bucket

\* requests whose name or bucket override is empty or holds a "/"
RoundTripNames == Names \cup {<< "a", "/", "a" >>}

RoundTripParams ==
    {NoParams} \cup {[k \in {BucketKey} |-> b] : b \in BucketOverrides \cup {EmptyStr}}

RoundTripRequests ==
    [name : RoundTripNames, params : RoundTripParams,
     caps : {[isNil |-> FALSE, modes |-> << SINGLE_NODE_WRITER >>]}, capacity : {0}]

\* C18: for every CreateVolume that succeeds, volumeIDToBucketPrefix of the
\* volume id it returns is the << bucket, prefix >> pair of its client calls:
\* the bucket of BucketExists and the bucket and prefix of the record it stored.
C18_IdentifierRoundTrip ==
    Quiet =>
        \A req \in RoundTripRequests :
            LET rep == CreateVolume(backend, req, {})
                bp == volumeIDToBucketPrefix(rep.volumeId)
            IN  rep.code = "OK" =>
                    /\ \A i \in CallsTo(rep.calls, "BucketExists") : rep.calls[i].bucket = bp[1]
                    /\ \A i \in CallsTo(rep.calls, "SetFSMeta") :
                           << rep.calls[i].bucket, rep.calls[i].arg >> = bp

\* the position of the first "/" of s from position i on, 0 when there is none
RECURSIVE FirstSlash(_, _)
FirstSlash(s, i) ==
    IF i > Len(s) THEN 0
    ELSE IF s[i] = Slash THEN i
    ELSE FirstSlash(s, i + 1)

\* s cut at its first "/": what is before it and all that is after it
CutAtFirstSlash(s) ==
    LET i == FirstSlash(s, 1)
    IN  IF i = 0 THEN << s, EmptyStr >>
        ELSE << SubSeq(s, 1, i - 1), SubSeq(s, i + 1, Len(s)) >>

\* C19: volumeIDToBucketPrefix cuts the volume id at its first "/": the bucket
\* is what stands before it and the prefix is all that follows it, further
\* "/" included; without a "/" the bucket is the volume id and the prefix is
\* empty.
C19_SplitsOnFirstSlash ==
    codec.fn = "volumeIDToBucketPrefix" => codec.out = CutAtFirstSlash(codec.arg)

\* each name of CodecInputs with its identifier
Identifiers == {<< s, sanitizeVolumeID(s) >> : s \in CodecInputs}

\* the other names of CodecInputs that are given the identifier id
SameIdentifier(name, id) == {pr[1] : pr \in {q \in Identifiers : q[2] = id /\ q[1] # name}}

\* SHA-1 digests of three lower-cased names, as the sha1 package computes them:
\* of 64 times "a", of 61 times "a" followed by U+2C65, and of 32 times U+2C65
KnownDigests ==
    {[lowered |-> Repeat("a", MaxIDLen + 1),
      hex |-> << "0", "0", "9", "8", "b", "a", "8", "2", "4", "b",
                  "5", "c", "1", "6", "4", "2", "7", "b", "d", "7",
                  "a", "1", "1", "2", "2", "a", "5", "a", "4", "4",
                  "2", "a", "2", "5", "e", "c", "6", "4", "4", "d" >>],
     [lowered |-> Repeat("a", MaxIDLen - 2) \o << SmallAStroke >>,
      hex |-> << "3", "3", "0", "f", "2", "d", "9", "2", "5", "a",
                  "e", "b", "9", "1", "8", "6", "8", "b", "c", "e",
                  "c", "7", "a", "b", "d", "0", "1", "a", "a", "c",
                  "4", "7", "7", "c", "2", "b", "6", "b", "3", "8" >>],
     [lowered |-> Repeat(SmallAStroke, 32),
      hex |-> << "f", "0", "0", "9", "a", "8", "a", "7", "e", "e",
                  "b", "5", "7", "d", "9", "a", "6", "0", "5", "1",
                  "9", "2", "9", "2", "0", "8", "6", "2", "9", "f",
                  "8", "2", "e", "5", "5", "2", "3", "c", "e", "d" >>]}

\* the identifier is 40 hexadecimal digits, and the known digest where one is known
IsDigestOf(id, lowered) ==
    /\ Len(id) = Len(Sha1Hex(EmptyStr))
    /\ \A i \in 1..Len(id) : \E d \in 1..Len(HexDigits) : id[i] = HexDigits[d]
    /\ \A kd \in KnownDigests : kd.lowered = lowered => id = kd.hex

\* the lower-cased name has at most 63 bytes
Short(name) == len(ToLower(name)) <= MaxIDLen

\* the result of sanitizeVolumeID has the stated form, lengths being counted in
\* bytes as line 246 counts them: it has at most 63 bytes, and it is
\* lower(name) when lower(name) has at most 63 bytes, else the digest of
\* lower(name) in 40 hexadecimal digits
SanitizedForm ==
    codec.fn = "sanitizeVolumeID" =>
        LET id == codec.out[1]
        IN  /\ len(id) <= MaxIDLen
            /\ IF Short(codec.arg)
               THEN id = ToLower(codec.arg)
               ELSE IsDigestOf(id, ToLower(codec.arg))

\* the same form with lengths counted in characters, as C20 words it
SanitizedForm_Characters ==
    codec.fn = "sanitizeVolumeID" =>
        LET id == codec.out[1]
        IN  /\ Len(id) <= MaxIDLen
            /\ IF Len(ToLower(codec.arg)) <= MaxIDLen
               THEN id = ToLower(codec.arg)
               ELSE IsDigestOf(id, ToLower(codec.arg))

\* C20 as stated: the identifier has at most 63 characters and is lower(name)
\* when lower(name) has at most 63 characters, else a digest of 40 hexadecimal
\* digits; and a name of at most 63 characters shares its identifier with no
\* other name of at most 63 characters, nor with any longer name.
C20_NoShortCollision ==
    /\ SanitizedForm_Characters
    /\ (codec.fn = "sanitizeVolumeID" /\ Len(codec.arg) <= MaxIDLen) =>
           SameIdentifier(codec.arg, codec.out[1]) = {}

\* C20 amended: sanitizeVolumeID has the stated form with lengths counted in
\* bytes; two names whose lower case has at most 63 bytes share an identifier
\* exactly when they are equal up to the case of their letters; and such a
\* name shares its identifier with a name whose lower case is longer only when
\* it spells, up to case, the 40 hexadecimal digits of that name's digest.
C20_CollisionsUpToCase ==
    /\ SanitizedForm
    /\ (codec.fn = "sanitizeVolumeID" /\ Short(codec.arg)) =>
           /\ \A other \in CodecInputs \ {codec.arg} :
                  Short(other) =>
                      (other \in SameIdentifier(codec.arg, codec.out[1])
                           <=> ToLower(other) = ToLower(codec.arg))
           /\ \A other \in SameIdentifier(codec.arg, codec.out[1]) :
                  ~Short(other) => IsDigestOf(codec.out[1], ToLower(other))

\* sanitizeVolumeID has been applied to a name with a capital letter whose
\* lower case has at most 63 bytes, and which another such name matches up to
\* case
C20_Witness ==
    /\ codec.fn = "sanitizeVolumeID"
    /\ Short(codec.arg)
    /\ codec.out[1] # codec.arg
    /\ \E other \in SameIdentifier(codec.arg, codec.out[1]) : Short(other)

\* sanitizeVolumeID has been applied to a name of at most 63 bytes, and of
\* fewer characters, whose lower case has 64 bytes: the identifier is a digest
C20_WitnessLowerCaseLonger ==
    /\ codec.fn = "sanitizeVolumeID"
    /\ len(codec.arg) <= MaxIDLen
    /\ len(ToLower(codec.arg)) = MaxIDLen + 1
    /\ codec.out[1] # ToLower(codec.arg)
    /\ len(codec.out[1]) = Len(Sha1Hex(EmptyStr))

====
